---- MODULE Spec2Model ----
(***************************************************************************)
(* A model of src/src/lib.rs: HashMap<K, V>, a separately chained hash     *)
(* table (Vec<Vec<(K, V)>> plus an item counter) with insert / get /       *)
(* remove / len / is_empty, a doubling resize, and the borrowing iterator  *)
(* Iter.                                                                   *)
(*                                                                         *)
(* Conventions.  Option<T> is a sequence of length <= 1: None is <<>> and  *)
(* Some(x) is <<x>>.  A pair (k, v) is <<k, v>>.  Rust indices are 0-based *)
(* and kept 0-based in the iterator fields and in bucket_idx; TLA+         *)
(* sequences are 1-based, so an access bs[i] of the code is bs[i + 1]      *)
(* here.  Position returns the 1-based position, 0 standing for None.      *)
(* A panic (remainder by zero in bucket_idx) sets `panicked`; the panic    *)
(* unwinds out of the caller, so no later operation is modelled.           *)
(***************************************************************************)
EXTENDS Integers, Sequences, FiniteSets, TLC

\* Bounds of the model.
MaxKey == 2
MaxVal == 2
HashSpace == 3

\* lib.rs:5
INITIAL_NBUCKETS == 1

Keys == 1..MaxKey
Vals == 1..MaxVal

None == <<>>
Some(x) == <<x>>

VARIABLES
    hash,       \* DefaultHasher applied to each key: a fixed function Keys -> u64
    buckets,    \* HashMap.buckets : Vec<Vec<(K, V)>>
    items,      \* HashMap.items : usize
    panicked,   \* TRUE once an operation has panicked
    lastOp,     \* name of the last operation called
    lastKey,    \* its key argument (0 when it has none)
    lastVal,    \* its value argument (0 when it has none)
    ret,        \* its return value (an Option; len/is_empty wrap their result)
    resized,    \* the last call was an insert that called resize (lib.rs:49)
    prevIns,    \* for a get: Some((k, v)) when the call right before it was insert(k, v)
    iterLive,   \* an Iter borrowing the map exists
    iterBucket, \* Iter.bucket
    iterAt,     \* Iter.at
    pc,         \* "idle", or "next" while Iter::next is inside its loop
    yielded,    \* the pairs the live Iter has yielded so far
    ended,      \* the live Iter has returned None at least once
    fresh,      \* every call so far that touched the contents inserted a new key
    ins,        \* while fresh: the set of pairs inserted
    inserted    \* insert has been called on this table

vars == <<hash, buckets, items, panicked, lastOp, lastKey, lastVal, ret, resized, prevIns,
          iterLive, iterBucket, iterAt, pc, yielded, ended, fresh, ins, inserted>>

mapVars == <<buckets, items>>
iterVars == <<iterLive, iterBucket, iterAt, yielded, ended>>
histVars == <<fresh, ins, inserted>>

----------------------------------------------------------------------------
\* Pure helpers translated from the source.

\* The hash functions considered: keys are interchangeable labels, so only
\* the non-decreasing assignments of hash values to keys are enumerated.
HashFunctions ==
    {h \in [Keys -> 0..(HashSpace - 1)] :
        \A k1, k2 \in Keys : k1 <= k2 => h[k1] <= h[k2]}

\* lib.rs:65-69  (hasher.finish() % self.buckets.len() as u64) as usize.
\* Only evaluated with Len(bs) > 0; the callers model the zero case as a panic.
bucket_idx(bs, key) == hash[key] % Len(bs)

\* Position with the scan starting one entry too late.
PositionSkipFirst(bucket, key) ==
    IF \E i \in 2..Len(bucket) : bucket[i][1] = key
    THEN CHOOSE i \in 2..Len(bucket) :
            /\ bucket[i][1] = key
            /\ \A j \in 2..(i - 1) : bucket[j][1] # key
    ELSE 0

\* lib.rs:33  bucket.iter().position(|&(ref ekey, _)| ekey == key)
\* 1-based position of the first entry with this key; 0 for None.
Position(bucket, key) ==
    IF \E i \in 1..Len(bucket) : bucket[i][1] = key
    THEN CHOOSE i \in 1..Len(bucket) :
            /\ bucket[i][1] = key
            /\ \A j \in 1..(i - 1) : bucket[j][1] # key
    ELSE 0

\* SwapRemove that drops the last element whatever i is.
SwapRemovePop(bucket, i) == SubSeq(bucket, 1, Len(bucket) - 1)

\* SwapRemove that overwrites element i with the last one and does not
\* shorten the vector.
SwapRemoveKeepLast(bucket, i) ==
    [j \in 1..Len(bucket) |-> IF j = i THEN bucket[Len(bucket)] ELSE bucket[j]]

\* Vec::swap_remove(i) as used at lib.rs:35: the last element takes the place
\* of element i and the vector shrinks by one.
SwapRemove(bucket, i) ==
    [j \in 1..(Len(bucket) - 1) |-> IF j = i THEN bucket[Len(bucket)] ELSE bucket[j]]

\* Find without the key comparison: the first entry of the bucket matches.
FindFirst(bucket, key) ==
    IF bucket = <<>> THEN None ELSE Some(bucket[1][2])

\* lib.rs:40-43  the scan of get inside bucket `bucket`.
Find(bucket, key) ==
    LET i == Position(bucket, key)
    IN  IF i = 0 THEN None ELSE Some(bucket[i][2])

\* get that scans bucket 0 whatever the key's index is.
GetResultFirstBucket(bs, key) == Find(bs[1], key)

\* lib.rs:38-44  the value get returns on a non-empty bucket array.
GetResult(bs, key) == Find(bs[bucket_idx(bs, key) + 1], key)

\* The threshold with the division done first: 3 * (len / 4).
NeedResizeDivFirst(bs, n) == Len(bs) = 0 \/ n > 3 * (Len(bs) \div 4)

\* The threshold taken as the full bucket count instead of three quarters.
NeedResizeFull(bs, n) == Len(bs) = 0 \/ n > Len(bs)

\* lib.rs:48  the resize condition of insert.
NeedResize(bs, n) == Len(bs) = 0 \/ n > (3 * Len(bs)) \div 4

\* Growth by one bucket instead of doubling.
TargetSizePlusOne(n) == IF n = 0 THEN INITIAL_NBUCKETS ELSE n + 1

\* Growth by a factor of three.
TargetSizeTriple(n) == IF n = 0 THEN INITIAL_NBUCKETS ELSE 3 * n

\* lib.rs:72-75
TargetSize(n) == IF n = 0 THEN INITIAL_NBUCKETS ELSE 2 * n

\* Drain that visits the first bucket only.
DrainFirst(bs) == IF bs = <<>> THEN <<>> ELSE Head(bs)

\* lib.rs:80  self.buckets.iter_mut().flat_map(|bucket| bucket.drain(..)):
\* the entries of bucket 0 in order, then those of bucket 1, ...
RECURSIVE Drain(_)
Drain(bs) == IF bs = <<>> THEN <<>> ELSE Head(bs) \o Drain(Tail(bs))

\* Rehash that pushes every entry onto new_buckets[0].
RehashFirstBucket(entries, nb) ==
    IF entries = <<>> THEN nb ELSE [nb EXCEPT ![1] = @ \o entries]

\* Rehash against the old bucket count (half the new one).  `entries` is
\* non-empty only when the old array had buckets, so Len(nb) >= 2 there.
RECURSIVE RehashOldLen(_, _)
RehashOldLen(entries, nb) ==
    IF entries = <<>> THEN nb
    ELSE LET e == Head(entries)
             b == (hash[e[1]] % (Len(nb) \div 2)) + 1
         IN  RehashOldLen(Tail(entries), [nb EXCEPT ![b] = Append(@, e)])

\* lib.rs:80-85  push every drained entry onto new_buckets[hash % new len].
RECURSIVE Rehash(_, _)
Rehash(entries, nb) ==
    IF entries = <<>> THEN nb
    ELSE LET e == Head(entries)
             b == (hash[e[1]] % Len(nb)) + 1
         IN  Rehash(Tail(entries), [nb EXCEPT ![b] = Append(@, e)])

\* Resize that allocates the new array and forgets to move the entries.
ResizeNoRehash(bs) == [i \in 1..TargetSize(Len(bs)) |-> <<>>]

\* lib.rs:71-88
Resize(bs) ==
    Rehash(Drain(bs), [i \in 1..TargetSize(Len(bs)) |-> <<>>])

----------------------------------------------------------------------------
\* lib.rs:15-20  HashMap::new(), and no Iter yet.
Init ==
    /\ hash \in HashFunctions
    /\ buckets = <<>>
    /\ items = 0
    /\ panicked = FALSE
    /\ lastOp = "new"
    /\ lastKey = 0
    /\ lastVal = 0
    /\ ret = None
    /\ resized = FALSE
    /\ prevIns = None
    /\ iterLive = FALSE
    /\ iterBucket = 0
    /\ iterAt = 0
    /\ pc = "idle"
    /\ yielded = <<>>
    /\ ended = FALSE
    /\ fresh = TRUE
    /\ ins = {}
    /\ inserted = FALSE

\* A &mut self method can be called: nothing has panicked, no call is in
\* progress and no Iter holds a shared borrow of the map.
CanMutate == ~panicked /\ pc = "idle" /\ ~iterLive

\* lib.rs:22-24
Len_ ==
    /\ ~panicked /\ pc = "idle"
    /\ lastOp' = "len" /\ lastKey' = 0 /\ lastVal' = 0
    /\ ret' = Some(items)
    /\ prevIns' = None /\ resized' = FALSE
    /\ UNCHANGED <<hash, mapVars, panicked, iterVars, pc, histVars>>

\* lib.rs:26-28
IsEmpty ==
    /\ ~panicked /\ pc = "idle"
    /\ lastOp' = "is_empty" /\ lastKey' = 0 /\ lastVal' = 0
    /\ ret' = Some(items = 0)
    /\ prevIns' = None /\ resized' = FALSE
    /\ UNCHANGED <<hash, mapVars, panicked, iterVars, pc, histVars>>

\* insert that puts a new pair at the front of its bucket.
InsertPrepend(key, value) ==
    /\ CanMutate
    /\ lastOp' = "insert" /\ lastKey' = key /\ lastVal' = value
    /\ prevIns' = None
    /\ resized' = NeedResize(buckets, items)
    /\ LET bs == IF NeedResize(buckets, items) THEN Resize(buckets) ELSE buckets
           b  == bucket_idx(bs, key) + 1
           i  == Position(bs[b], key)
       IN  IF i # 0
           THEN /\ buckets' = [bs EXCEPT ![b][i][2] = value]
                /\ items' = items
                /\ ret' = Some(bs[b][i][2])
           ELSE /\ buckets' = [bs EXCEPT ![b] = <<<<key, value>>>> \o @]
                /\ items' = items + 1
                /\ ret' = None
    /\ IF fresh /\ \A p \in ins : p[1] # key
       THEN fresh' = TRUE /\ ins' = ins \cup {<<key, value>>}
       ELSE fresh' = FALSE /\ ins' = {}
    /\ inserted' = TRUE
    /\ UNCHANGED <<hash, panicked, iterVars, pc>>

\* lib.rs:46-63
Insert(key, value) ==
    /\ CanMutate
    /\ lastOp' = "insert" /\ lastKey' = key /\ lastVal' = value
    /\ prevIns' = None
    /\ resized' = NeedResize(buckets, items)
    /\ LET bs == IF NeedResize(buckets, items) THEN Resize(buckets) ELSE buckets
           b  == bucket_idx(bs, key) + 1
           i  == Position(bs[b], key)
       IN  IF i # 0
           THEN /\ buckets' = [bs EXCEPT ![b][i][2] = value]
                /\ items' = items
                /\ ret' = Some(bs[b][i][2])
           ELSE /\ buckets' = [bs EXCEPT ![b] = Append(@, <<key, value>>)]
                /\ items' = items + 1
                /\ ret' = None
    /\ IF fresh /\ \A p \in ins : p[1] # key
       THEN fresh' = TRUE /\ ins' = ins \cup {<<key, value>>}
       ELSE fresh' = FALSE /\ ins' = {}
    /\ inserted' = TRUE
    /\ UNCHANGED <<hash, panicked, iterVars, pc>>

\* lib.rs:38-44
Get(key) ==
    /\ CanMutate
    /\ lastOp' = "get" /\ lastKey' = key /\ lastVal' = 0
    /\ prevIns' = IF lastOp = "insert" /\ lastKey = key
                  THEN Some(<<lastKey, lastVal>>) ELSE None
    /\ resized' = FALSE
    /\ IF Len(buckets) = 0
       THEN panicked' = TRUE /\ ret' = None
       ELSE panicked' = FALSE /\ ret' = GetResult(buckets, key)
    /\ UNCHANGED <<hash, mapVars, iterVars, pc, histVars>>

\* remove that gives the bucket array back when the table becomes empty.
RemoveShrink(key) ==
    /\ CanMutate
    /\ lastOp' = "remove" /\ lastKey' = key /\ lastVal' = 0
    /\ prevIns' = None /\ resized' = FALSE
    /\ fresh' = FALSE /\ ins' = {} /\ inserted' = inserted
    /\ IF Len(buckets) = 0
       THEN /\ panicked' = TRUE /\ ret' = None
            /\ UNCHANGED mapVars
       ELSE LET b == bucket_idx(buckets, key) + 1
                i == Position(buckets[b], key)
            IN  /\ panicked' = FALSE
                /\ IF i = 0
                   THEN ret' = None /\ UNCHANGED mapVars
                   ELSE /\ items' = items - 1
                        /\ ret' = Some(buckets[b][i][2])
                        /\ buckets' = IF items = 1 THEN <<>>
                                      ELSE [buckets EXCEPT ![b] = SwapRemove(@, i)]
    /\ UNCHANGED <<hash, iterVars, pc>>

\* lib.rs:30-36
Remove(key) ==
    /\ CanMutate
    /\ lastOp' = "remove" /\ lastKey' = key /\ lastVal' = 0
    /\ prevIns' = None /\ resized' = FALSE
    /\ fresh' = FALSE /\ ins' = {} /\ inserted' = inserted
    /\ IF Len(buckets) = 0
       THEN /\ panicked' = TRUE /\ ret' = None
            /\ UNCHANGED mapVars
       ELSE LET b == bucket_idx(buckets, key) + 1
                i == Position(buckets[b], key)
            IN  /\ panicked' = FALSE
                /\ IF i = 0
                   THEN ret' = None /\ UNCHANGED mapVars
                   ELSE /\ items' = items - 1
                        /\ ret' = Some(buckets[b][i][2])
                        /\ buckets' = [buckets EXCEPT ![b] = SwapRemove(@, i)]
    /\ UNCHANGED <<hash, iterVars, pc>>

\* lib.rs:124-131  (&map).into_iter(): a new handle; a handle held before is
\* given up.
IntoIter ==
    /\ ~panicked /\ pc = "idle"
    /\ lastOp' = "into_iter" /\ lastKey' = 0 /\ lastVal' = 0
    /\ ret' = None /\ prevIns' = None /\ resized' = FALSE
    /\ iterLive' = TRUE /\ iterBucket' = 0 /\ iterAt' = 0
    /\ yielded' = <<>> /\ ended' = FALSE
    /\ UNCHANGED <<hash, mapVars, panicked, pc, histVars>>

\* The Iter goes out of scope, ending its borrow of the map.
DropIter ==
    /\ ~panicked /\ pc = "idle" /\ iterLive
    /\ lastOp' = "drop" /\ lastKey' = 0 /\ lastVal' = 0
    /\ ret' = None /\ prevIns' = None /\ resized' = FALSE
    /\ iterLive' = FALSE /\ iterBucket' = 0 /\ iterAt' = 0
    /\ yielded' = <<>> /\ ended' = FALSE
    /\ UNCHANGED <<hash, mapVars, panicked, pc, histVars>>

\* lib.rs:100-101  Iter::next is called and enters its loop.
NextCall ==
    /\ ~panicked /\ pc = "idle" /\ iterLive
    /\ pc' = "next"
    /\ lastOp' = "next" /\ lastKey' = 0 /\ lastVal' = 0
    /\ ret' = None /\ prevIns' = None /\ resized' = FALSE
    /\ UNCHANGED <<hash, mapVars, panicked, iterVars, histVars>>

\* lib.rs:102-108  the entry at (bucket, at) exists: yield it.
NextYield ==
    /\ pc = "next"
    /\ iterBucket < Len(buckets)
    /\ iterAt < Len(buckets[iterBucket + 1])
    /\ iterAt' = iterAt + 1
    /\ ret' = Some(buckets[iterBucket + 1][iterAt + 1])
    /\ yielded' = Append(yielded, buckets[iterBucket + 1][iterAt + 1])
    /\ pc' = "idle"
    /\ UNCHANGED <<hash, mapVars, panicked, lastOp, lastKey, lastVal, resized, prevIns,
                   iterLive, iterBucket, ended, histVars>>

\* NextSkip without `self.at = 0`.
NextSkipNoReset ==
    /\ pc = "next"
    /\ iterBucket < Len(buckets)
    /\ iterAt >= Len(buckets[iterBucket + 1])
    /\ iterBucket' = iterBucket + 1
    /\ UNCHANGED <<hash, mapVars, panicked, lastOp, lastKey, lastVal, ret, resized, prevIns,
                   iterLive, iterAt, pc, yielded, ended, histVars>>

\* lib.rs:109-113  the bucket is exhausted: go to the next one and loop.
NextSkip ==
    /\ pc = "next"
    /\ iterBucket < Len(buckets)
    /\ iterAt >= Len(buckets[iterBucket + 1])
    /\ iterBucket' = iterBucket + 1
    /\ iterAt' = 0
    /\ UNCHANGED <<hash, mapVars, panicked, lastOp, lastKey, lastVal, ret, resized, prevIns,
                   iterLive, pc, yielded, ended, histVars>>

\* NextEnd that rewinds the handle to the first bucket.
NextEndRewind ==
    /\ pc = "next"
    /\ iterBucket >= Len(buckets)
    /\ ret' = None
    /\ ended' = TRUE
    /\ pc' = "idle"
    /\ iterBucket' = 0 /\ iterAt' = 0
    /\ UNCHANGED <<hash, mapVars, panicked, lastOp, lastKey, lastVal, resized, prevIns,
                   iterLive, yielded, histVars>>

\* lib.rs:116-118  no bucket at this index: end of the sequence.
NextEnd ==
    /\ pc = "next"
    /\ iterBucket >= Len(buckets)
    /\ ret' = None
    /\ ended' = TRUE
    /\ pc' = "idle"
    /\ UNCHANGED <<hash, mapVars, panicked, lastOp, lastKey, lastVal, resized, prevIns,
                   iterLive, iterBucket, iterAt, yielded, histVars>>

NextStep == NextYield \/ NextSkip \/ NextEnd

Next ==
    \/ Len_
    \/ IsEmpty
    \/ \E k \in Keys, v \in Vals : Insert(k, v)
    \/ \E k \in Keys : Get(k)
    \/ \E k \in Keys : Remove(k)
    \/ IntoIter
    \/ DropIter
    \/ NextCall
    \/ NextYield
    \/ NextSkip
    \/ NextEnd

Spec == Init /\ [][Next]_vars

\* A call of Iter::next that has started keeps running until it returns.
FairSpec == Spec /\ WF_vars(NextStep)

----------------------------------------------------------------------------
\* Vocabulary of the properties: the contents of a bucket array, read off
\* slot by slot and independently of the hash.

Slots(bs) == UNION {{<<b, i>> : i \in 1..Len(bs[b])} : b \in 1..Len(bs)}

PairsOf(bs) == {bs[s[1]][s[2]] : s \in Slots(bs)}

KeysOf(bs) == {p[1] : p \in PairsOf(bs)}

Stored(bs, k) == {p[2] : p \in {q \in PairsOf(bs) : q[1] = k}}

RECURSIVE TotalPairs(_)
TotalPairs(bs) == IF bs = <<>> THEN 0 ELSE Len(Head(bs)) + TotalPairs(Tail(bs))

RECURSIVE BucketMajor(_, _)
BucketMajor(bs, n) ==
    IF n = 0 THEN <<>> ELSE BucketMajor(bs, n - 1) \o bs[n]

IsPrefix(s, t) == Len(s) <= Len(t) /\ SubSeq(t, 1, Len(s)) = s

----------------------------------------------------------------------------
\* C1.  Round trip: a get(K) called right after insert(K, V) returns Some(V)
\* and does not panic, whatever the table held before the insert.
RoundTrip ==
    (lastOp = "get" /\ prevIns # None)
        => (~panicked /\ lastKey = prevIns[1][1] /\ ret = Some(prevIns[1][2]))

\* A get right after an insert into a bucket that holds another key in front.
RoundTripWitness ==
    /\ lastOp = "get" /\ prevIns # None /\ ret = Some(prevIns[1][2])
    /\ \E b \in 1..Len(buckets) :
          Len(buckets[b]) >= 2 /\ buckets[b][1][1] # lastKey
          /\ \E i \in 2..Len(buckets[b]) : buckets[b][i][1] = lastKey

\* C2.  get on a table whose bucket array is empty returns None without
\* addressing a bucket and without faulting.
GetOnEmptyReturnsNone ==
    (lastOp = "get" /\ Len(buckets) = 0) => (~panicked /\ ret = None)

\* C3.  remove(K) of a key that is not stored returns None, does not fault,
\* and leaves the bucket array and the item count as they were; this
\* includes the new table with no buckets.
RemoveAbsentChangesNothing ==
    [][(lastOp' = "remove" /\ lastKey' \notin KeysOf(buckets))
          => (~panicked' /\ ret' = None /\ buckets' = buckets /\ items' = items)]_vars

\* C4.  remove(K) of a key stored with value V returns Some(V), decrements
\* the item count by one, makes get(K) return None, and keeps every other
\* stored pair.
RemovePresent ==
    [][\A v \in Vals :
          (lastOp' = "remove" /\ v \in Stored(buckets, lastKey'))
             => /\ ~panicked'
                /\ ret' = Some(v)
                /\ items' = items - 1
                /\ GetResult(buckets', lastKey') = None
                /\ lastKey' \notin KeysOf(buckets')
                /\ PairsOf(buckets') = PairsOf(buckets) \ {<<lastKey', v>>}
                /\ \A k \in Keys \ {lastKey'} :
                      GetResult(buckets', k) = GetResult(buckets, k)]_vars

\* A removal from a bucket that held two or more entries, in a table that
\* has been resized.
RemovePresentWitness ==
    /\ lastOp = "remove" /\ ret # None
    /\ Len(buckets) >= 2
    /\ Len(buckets[bucket_idx(buckets, lastKey) + 1]) >= 1

\* C5.  insert(K, V2) when K is stored with V1 returns Some(V1), keeps the
\* item count, makes get(K) return Some(V2), and keeps the set of stored
\* keys and every other key's value, also when the call resizes.
Overwrite ==
    [][\A v1 \in Vals :
          (lastOp' = "insert" /\ v1 \in Stored(buckets, lastKey'))
             => /\ ret' = Some(v1)
                /\ items' = items
                /\ GetResult(buckets', lastKey') = Some(lastVal')
                /\ KeysOf(buckets') = KeysOf(buckets)
                /\ PairsOf(buckets') =
                      (PairsOf(buckets) \ {<<lastKey', v1>>}) \cup {<<lastKey', lastVal'>>}
                /\ \A k \in Keys \ {lastKey'} :
                      GetResult(buckets', k) = GetResult(buckets, k)]_vars

\* An overwrite with a different value that resized from 2 to 4 buckets and
\* rehashed two stored pairs.
OverwriteWitness ==
    /\ lastOp = "insert" /\ ret # None /\ ret # Some(lastVal)
    /\ resized /\ Len(buckets) = 4 /\ items = 2

\* C6.  Size invariant: the item count equals the number of pairs summed
\* over the buckets and the number of distinct stored keys; len() returns
\* it and is_empty() is true exactly when no key is stored.
SizeInvariant ==
    /\ items = TotalPairs(buckets)
    /\ items = Cardinality(KeysOf(buckets))
    /\ (lastOp = "len") => ret = Some(Cardinality(KeysOf(buckets)))
    /\ (lastOp = "is_empty") => ret = Some(KeysOf(buckets) = {})

\* len() called on a table that holds two keys after an overwrite or a
\* removal and three resizes (0 -> 1 -> 2 -> 4 buckets).
SizeWitness ==
    lastOp = "len" /\ ret = Some(2) /\ ~fresh /\ Len(buckets) = 4

\* C7.  Key uniqueness: no key occupies two (bucket, position) slots.
KeyUniqueness ==
    \A s, t \in Slots(buckets) :
        buckets[s[1]][s[2]][1] = buckets[t[1]][t[2]][1] => s = t

\* An overwriting insert on a resized table that has seen a removal or an
\* earlier overwrite: the key was already there and was not added again.
KeyUniquenessWitness ==
    /\ lastOp = "insert" /\ ret # None /\ ~fresh
    /\ Len(buckets) = 4 /\ items = 2
    /\ \E b \in 1..Len(buckets) : Len(buckets[b]) = 2

\* C8.  Growth: as long as only distinct keys have been inserted and nothing
\* removed, the item count is the number of inserts and get returns the
\* inserted value of each inserted key.
GrowthInvariant ==
    fresh =>
        /\ items = Cardinality(ins)
        /\ \A p \in ins :
              Len(buckets) > 0 /\ GetResult(buckets, p[1]) = Some(p[2])
        /\ (lastOp = "get" /\ ~panicked) =>
              IF ret = None
              THEN lastKey \notin {p[1] : p \in ins}
              ELSE <<lastKey, ret[1]>> \in ins

\* Two distinct keys inserted, two resizes behind (0 -> 1 -> 2 buckets, the
\* second one rehashing), the keys in different buckets, and a get of one.
GrowthWitness ==
    /\ fresh /\ Cardinality(ins) = 2 /\ Len(buckets) = 2
    /\ buckets[1] # <<>> /\ buckets[2] # <<>>
    /\ lastOp = "get" /\ ret # None

\* C9.  Iteration: a handle yields the stored pairs in bucket-major order,
\* each once and nothing else; when it reports the end it has yielded all of
\* them, and after inserts of distinct keys only, exactly the inserted set.
IterationComplete ==
    iterLive =>
        /\ IsPrefix(yielded, BucketMajor(buckets, Len(buckets)))
        /\ \A i, j \in 1..Len(yielded) : yielded[i] = yielded[j] => i = j
        /\ ended => yielded = BucketMajor(buckets, Len(buckets))
        /\ ended => {yielded[i] : i \in 1..Len(yielded)} = PairsOf(buckets)
        /\ (ended /\ fresh) =>
              /\ {yielded[i] : i \in 1..Len(yielded)} = ins
              /\ Len(yielded) = Cardinality(ins)

\* A finished traversal of two pairs lying in consecutive buckets.
IterationWitness ==
    /\ iterLive /\ ended /\ Len(yielded) = 2
    /\ \E b \in 1..(Len(buckets) - 1) : buckets[b] # <<>> /\ buckets[b + 1] # <<>>

\* C10.  Iteration terminates: a call of next() returns, skipping at most
\* the buckets of the array; the handle reports the end after exactly
\* len() pairs, and having reported it, reports it on every later call.
IterStateInv ==
    iterLive =>
        /\ iterBucket <= Len(buckets)
        /\ Len(yielded) <= items
        /\ (lastOp = "next" /\ pc = "idle" /\ ret = None) => Len(yielded) = items
        /\ ended => Len(yielded) = items
        /\ (ended /\ lastOp = "next" /\ pc = "idle") => ret = None
        /\ (items = 0 /\ lastOp = "next" /\ pc = "idle") => (ended /\ ret = None)

IterationTerminates ==
    /\ []IterStateInv
    /\ [][ended => (ended' \/ lastOp' \in {"into_iter", "drop"})]_vars
    /\ (pc = "next") ~> (pc = "idle")

\* next() called again on a handle that has yielded its pairs and reported
\* the end.
IterationTerminatesWitness ==
    iterLive /\ ended /\ pc = "next" /\ Len(yielded) >= 2 /\ Len(buckets) = 4

\* C11.  Zero-length addressing never happens: no call of insert, get or
\* remove computes hash % buckets.len() with buckets.len() = 0 (in the code
\* that computation is a panic, recorded in `panicked`).
NoZeroLengthAddressing ==
    (lastOp \in {"insert", "get", "remove"}) => ~panicked

\* C12.  Monotonic growth: the bucket-array length never decreases, changes
\* only in insert, and get and remove leave it as it is, also when a
\* removal empties the table.
MonotonicGrowth ==
    [][/\ Len(buckets') >= Len(buckets)
       /\ (Len(buckets') # Len(buckets)) => lastOp' = "insert"
       /\ (lastOp' \in {"get", "remove"}) => Len(buckets') = Len(buckets)]_vars

\* A removal that emptied a table of 4 buckets.
MonotonicGrowthWitness ==
    lastOp = "remove" /\ ret # None /\ items = 0 /\ Len(buckets) = 4

\* C13.  get is read-only: on a non-empty bucket array get(K) leaves the
\* buckets and the item count unchanged and returns the stored value
\* exactly when K is stored, None otherwise.
GetReadOnly ==
    [][(lastOp' = "get" /\ Len(buckets) > 0)
          => /\ ~panicked'
             /\ buckets' = buckets
             /\ items' = items
             /\ IF lastKey' \in KeysOf(buckets)
                THEN ret' # None /\ ret'[1] \in Stored(buckets, lastKey')
                ELSE ret' = None]_vars

\* A get of a stored key whose bucket is not the first one.
GetReadOnlyWitness ==
    /\ lastOp = "get" /\ ret # None /\ ~panicked
    /\ bucket_idx(buckets, lastKey) >= 1
    /\ items = 2

\* The number of slots of bs that hold exactly the pair p.
Count(bs, p) == Cardinality({s \in Slots(bs) : bs[s[1]][s[2]] = p})

\* Every pair of bs lies in the bucket its key hashes to.
WellPlaced(bs) ==
    \A s \in Slots(bs) : s[1] - 1 = hash[bs[s[1]][s[2]][1]] % Len(bs)

\* C14.  Resize is a full rehash that preserves the contents: an insert that
\* resizes leaves an array of 1 bucket if there was none and of twice the
\* old length otherwise; the resize moves every stored pair exactly once
\* into bucket hash(key) mod new length and keeps the item count and the
\* multiset of pairs; pairs of keys other than the inserted one are the
\* same before and after the call.
ResizeRehash ==
    [][(lastOp' = "insert" /\ resized')
          => LET nb == Resize(buckets)
             IN  /\ Len(nb) = (IF Len(buckets) = 0 THEN 1 ELSE 2 * Len(buckets))
                 /\ Len(buckets') = Len(nb)
                 /\ TotalPairs(nb) = items
                 /\ \A k \in Keys, v \in Vals :
                       Count(nb, <<k, v>>) = Count(buckets, <<k, v>>)
                 /\ WellPlaced(nb)
                 /\ (Len(buckets) = 0) => (Len(buckets') = 1 /\ items' = 1)
                 /\ \A k \in Keys \ {lastKey'}, v \in Vals :
                       Count(buckets', <<k, v>>) = Count(buckets, <<k, v>>)]_vars

\* An insert that resized to 4 buckets and moved another key's pair out of
\* the first two buckets.
ResizeRehashWitness ==
    /\ lastOp = "insert" /\ resized /\ Len(buckets) = 4
    /\ \E s \in Slots(buckets) : s[1] >= 3 /\ buckets[s[1]][s[2]][1] # lastKey

\* C15.  Placement: with a non-empty bucket array every stored pair lies in
\* bucket hash(key) mod the bucket-array length, after insert, remove and
\* resize alike.
Placement ==
    Len(buckets) > 0 => WellPlaced(buckets)

\* Two stored pairs in different buckets of a 4-bucket array, after a
\* removal and a re-insert.
PlacementWitness ==
    /\ Len(buckets) = 4 /\ items = 2 /\ ~fresh
    /\ lastOp = "insert" /\ ret = None
    /\ \E b \in 2..4 : buckets[b] # <<>>

\* The bucket (1-based) of bs that holds key k; 0 when no bucket does.
BucketOf(bs, k) ==
    IF \E s \in Slots(bs) : bs[s[1]][s[2]][1] = k
    THEN (CHOOSE s \in Slots(bs) : bs[s[1]][s[2]][1] = k)[1]
    ELSE 0

\* C16.  Resize trigger: insert resizes exactly when, at entry, the bucket
\* array is empty or items > 3 * buckets.len() / 4 (integer division); it
\* resizes once (the length becomes 1, or exactly twice the old length) and
\* before addressing (the inserted key lies in bucket hash mod the new
\* length), whether or not the key was stored; otherwise the length stays.
ResizeTrigger ==
    [][(lastOp' = "insert")
          => /\ IF Len(buckets) = 0 \/ items > (3 * Len(buckets)) \div 4
                THEN /\ resized'
                     /\ Len(buckets') =
                           (IF Len(buckets) = 0 THEN 1 ELSE 2 * Len(buckets))
                ELSE /\ ~resized'
                     /\ Len(buckets') = Len(buckets)
             /\ BucketOf(buckets', lastKey') - 1 = hash[lastKey'] % Len(buckets')]_vars

\* An insert of a new key that resized from 1 to 2 buckets and wrote into
\* the second one.
ResizeTriggerWitness ==
    /\ lastOp = "insert" /\ resized /\ ret = None
    /\ Len(buckets) = 2 /\ items = 2
    /\ BucketOf(buckets, lastKey) = 2

InsertAppends ==
    [][(lastOp' = "insert" /\ lastKey' \notin KeysOf(buckets))
          => LET b   == (hash[lastKey'] % Len(buckets')) + 1
                 new == buckets'[b]
             IN  /\ ret' = None
                 /\ items' = items + 1
                 /\ Len(new) >= 1
                 /\ new[Len(new)] = <<lastKey', lastVal'>>
                 /\ (~resized') =>
                       /\ SubSeq(new, 1, Len(new) - 1) = buckets[b]
                       /\ \A c \in 1..Len(buckets) : c # b => buckets'[c] = buckets[c]]_vars

\* A new key went behind another entry of its bucket without a resize.
InsertAppendsWitness ==
    /\ lastOp = "insert" /\ ret = None /\ ~resized
    /\ Len(buckets[bucket_idx(buckets, lastKey) + 1]) = 2

\* C19.  Load bound: with a non-empty bucket array,
\* items <= 3 * buckets.len() / 4 + 1 (integer division).
LoadBound ==
    Len(buckets) > 0 => items <= (3 * Len(buckets)) \div 4 + 1

\* The bound is met with equality right after an insert.
LoadBoundWitness ==
    /\ lastOp = "insert" /\ Len(buckets) = 2
    /\ items = (3 * Len(buckets)) \div 4 + 1

RECURSIVE IsPowerOfTwo(_)
IsPowerOfTwo(n) ==
    IF n = 1 THEN TRUE
    ELSE IF n < 1 \/ n % 2 = 1 THEN FALSE
    ELSE IsPowerOfTwo(n \div 2)

\* C20.  Length shape: the bucket-array length is 0 or a power of two; it is
\* 0 exactly when insert was never called, and then the item count is 0.
LengthShape ==
    /\ Len(buckets) = 0 \/ IsPowerOfTwo(Len(buckets))
    /\ (Len(buckets) = 0) <=> ~inserted
    /\ (~inserted) => items = 0

\* A table that grew to 4 buckets and was emptied again.
LengthShapeWitness ==
    inserted /\ Len(buckets) = 4 /\ items = 0 /\ lastOp = "is_empty"

====
